---------------------------- MODULE Spec2Model ----------------------------
(***************************************************************************)
(* A model of tfrddlsim/viz/plots/plot_navigation_policy.py: the script    *)
(* that samples a grid of positions, evaluates a policy on it and draws    *)
(* the action field and the streamlines over the deceleration zones.       *)
(*                                                                         *)
(* Numbers.  Coordinates of the bounding box, of the zone centers and of   *)
(* the goal are integers.  A value of np.linspace(a, b, n) is kept exactly *)
(* as its numerator over the denominator Den(n) = max(n-1, 1).  The axis   *)
(* limits of plot_grid are kept in tenths.  The attenuation field of       *)
(* plot_deceleration_zones is computed in fixed point with unit 1/FP.      *)
(* The command-line npoints is a float; it is kept in halves (5 is 2.5).   *)
(* Floating-point rounding is not represented: neither that of linspace    *)
(* nor the cast to float32 of tf.constant at line 46, which acts on each   *)
(* coordinate separately and moves none of them to another position.       *)
(* The drawing calls of matplotlib are kept as the data handed to them.    *)
(***************************************************************************)
EXTENDS Integers, Sequences, FiniteSets, TLC

\* ------------------------------------------------------------------ bounds
MaxZones   == 2     \* longest zone-center / decay collection
MaxPoints  == 3     \* largest integer part of the npoints argument
MeshPoints == 3     \* mesh resolution of plot_deceleration_zones (1000 in the code)
MaxSamples == 5     \* longest sample handed to plot_action_stream on its own

FP == 1000          \* fixed-point unit of the attenuation field

Boxes     == { <<0, 2, 0, 4>>, <<-1, 1, -1, 1>> }   \* argv[4]: xmin,xmax,ymin,ymax
NpArgs    == (-2) .. (2 * MaxPoints + 1)            \* argv[5] in halves: -1.0 .. MaxPoints+0.5
Centers   == { <<0, 0>>, <<1, 2>> }
Decays    == { 0, 1 }
Goals     == { <<2, 2>> }
Locations == { <<0, 1>> }
Policies  == { "rot", "shear" }
Points    == { <<0, 0>>, <<1, 0>>, <<0, 1>> }       \* states given to plot_action_stream on its own

SeqsUpTo(S, n) == UNION { [1..k -> S] : k \in 0..n }

VARIABLES
    pc,             \* position of the main script
    argv,           \* [size, npoints]: sys.argv[4] and sys.argv[5]
    size,           \* line 142
    npoints,        \* line 143, in halves
    fluentsFor,     \* which get_fluents call is running
    non_fluents,    \* line 148
    initial_state,  \* line 149
    grid,           \* lines 151-152
    policy,         \* line 154
    states,         \* line 156
    actions,        \* line 157
    states_,        \* line 159
    actions_,       \* line 159
    sessions,       \* number of open tf.Session objects
    restored,       \* policy.restore has run in the open session
    exc,            \* the exception in flight or that ended the run
    ax,             \* the two axes: what has been drawn on each
    shown           \* plt.show() was reached

vars == << pc, argv, size, npoints, fluentsFor, non_fluents,
           initial_state, grid, policy, states, actions, states_, actions_,
           sessions, restored, exc, ax, shown >>

Min(a, b) == IF a <= b THEN a ELSE b

\* -------------------------------------------------------------- get_grid
\* a pairing that takes the decays from the far end
RECURSIVE ZipAppendCrossed(_, _, _, _)
ZipAppendCrossed(centers, decays, i, zones) ==
    IF i > Min(Len(centers), Len(decays)) THEN zones
    ELSE ZipAppendCrossed(centers, decays, i + 1,
             Append(zones, << centers[i][1], centers[i][2],
                              decays[Len(decays) + 1 - i] >>))

RECURSIVE ZipAppend(_, _, _, _)
ZipAppend(centers, decays, i, zones) ==
    IF i > Min(Len(centers), Len(decays)) THEN zones
    ELSE ZipAppend(centers, decays, i + 1,
                   Append(zones, << centers[i][1], centers[i][2], decays[i] >>))

get_grid(nf, init) ==
    ("start" :> init["location/1"]) @@
    ("end"   :> nf["GOAL/1"]) @@
    ("zones" :> ZipAppend(nf["DECELERATION_ZONE_CENTER/2"],
                          nf["DECELERATION_ZONE_DECAY/1"], 1, << >>))

\* ------------------------------------------------------------ get_states
\* int(num): truncation toward zero of a float kept in halves
Trunc(h) == IF h >= 0 THEN h \div 2 ELSE -((-h) \div 2)

Den(n) == IF n > 1 THEN n - 1 ELSE 1

\* np.linspace(start, stop, num) for an integer num >= 0, numerators over Den(num)
linspace(start, stop, num) ==
    [ i \in 1..num |-> start * Den(num) + (i - 1) * (stop - start) ]

\* a product whose first iterable advances fastest
product_first_fastest(a, b, i, j, acc) ==
    [ k \in 1..(Len(a) * Len(b)) |->
        << a[((k - 1) % Len(a)) + 1], b[((k - 1) \div Len(a)) + 1] >> ]

\* itertools.product(a, b): the last iterable advances fastest
RECURSIVE product(_, _, _, _, _)
product(a, b, i, j, acc) ==
    IF i > Len(a) THEN acc
    ELSE IF j > Len(b) THEN product(a, b, i + 1, 1, acc)
    ELSE product(a, b, i, j + 1, Append(acc, << a[i], b[j] >>))

\* get_states(compiler, grid, npoints): [raised, value].  A float num is
\* rejected by linspace (TypeError) or truncated with int(), by the numpy in use;
\* a negative num is a ValueError.
get_states(box, np, strict) ==
    IF strict THEN [ raised |-> "TypeError", value |-> << >> ]
    ELSE IF Trunc(np) < 0 THEN [ raised |-> "ValueError", value |-> << >> ]
    ELSE LET n      == Trunc(np)
             grid_x == linspace(box[1], box[2], n)
             grid_y == linspace(box[3], box[4], n)
         IN  [ raised |-> "none", value |-> product(grid_x, grid_y, 1, 1, << >>) ]

\* ----------------------------------------------------------- get_actions
\* policy(states, timesteps): the external policy, one action per state
PolicyAction(p, s) ==
    IF p = "rot" THEN << -s[2], s[1] >> ELSE << s[1] + s[2], s[2] + 1 >>

get_actions(p, st) == [ i \in 1..Len(st) |-> PolicyAction(p, st[i]) ]

\* ------------------------------------------------------------- plot_grid
\* axis limits in tenths: [x lower, x upper, y lower, y upper]
plot_grid(sz) ==
    LET delta_x == sz[2] - sz[1]
        delta_y == sz[4] - sz[3]
        size_x  == << 10 * sz[1] - delta_x, 10 * sz[2] + delta_x >>
        size_y  == << 10 * sz[3] - delta_x, 10 * sz[4] + delta_x >>
    IN  size_x \o size_y

\* ----------------------------------------------- plot_deceleration_zones
\* the integer square root by Newton's iteration from a start x >= sqrt(n)
RECURSIVE SqrtFrom(_, _)
SqrtFrom(n, x) ==
    LET y == (x + n \div x) \div 2
    IN  IF y >= x THEN x ELSE SqrtFrom(n, y)

\* floor of the square root
ISqrt(n) == IF n = 0 THEN 0 ELSE SqrtFrom(n, n)

Abs(v) == IF v >= 0 THEN v ELSE -v

\* np.sqrt(dx ** 2 + dy ** 2), rounded down to the fixed-point unit
Distance(dx, dy) ==
    IF dx = 0 /\ dy = 0 THEN 0 ELSE SqrtFrom(dx * dx + dy * dy, Abs(dx) + Abs(dy))

\* exp(r) for 0 <= r <= FP (fixed point), by its series
ExpSeries(r) ==
    LET t1 == r
        t2 == (t1 * r) \div (2 * FP)
        t3 == (t2 * r) \div (3 * FP)
        t4 == (t3 * r) \div (4 * FP)
        t5 == (t4 * r) \div (5 * FP)
        t6 == (t5 * r) \div (6 * FP)
    IN  FP + t1 + t2 + t3 + t4 + t5 + t6

\* e in fixed point
Euler == ExpSeries(FP)

\* exp(-k) for a natural number k
RECURSIVE ExpNegInt(_)
ExpNegInt(k) == IF k = 0 THEN FP ELSE (ExpNegInt(k - 1) * FP) \div Euler

\* exp(-t) for t >= 0 (fixed point)
ExpNeg(t) == (ExpNegInt(t \div FP) * FP) \div ExpSeries(t % FP)

\* the attenuation without its offset: 2 / (1 + exp(-decay * D))
AttenuationNoOffset(decay, D) == (2 * FP * FP) \div (FP + ExpNeg(decay * D))

\* 2 / (1 + exp(-decay * D)) - 1.00
Attenuation(decay, D) == (2 * FP * FP) \div (FP + ExpNeg(decay * D)) - FP

\* np.linspace(a, b, m) in fixed point
MeshAxis(a, b, m) == [ i \in 1..m |-> (linspace(a, b, m)[i] * FP) \div Den(m) ]

RECURSIVE LambdaAt(_, _, _, _, _)
LambdaAt(X, Y, zones, k, Lambda) ==
    IF k > Len(zones) THEN Lambda
    ELSE LET dx == X - zones[k][1] * FP
             dy == Y - zones[k][2] * FP
             D  == Distance(dx, dy)
         IN  LambdaAt(X, Y, zones, k + 1,
                      (Lambda * Attenuation(zones[k][3], D)) \div FP)

\* the field Lambda over the mesh: row i is y, column j is x (np.meshgrid)
LambdaField(sz, zones, m) ==
    LET xs == MeshAxis(sz[1], sz[2], m)
        ys == MeshAxis(sz[3], sz[4], m)
    IN  [ i \in 1..m |-> [ j \in 1..m |-> LambdaAt(xs[j], ys[i], zones, 1, FP) ] ]

\* ------------------------------------------------------ plotting helpers
\* np.split(a, 2, axis=1): the k-th column of an (N, 2) array
Column(a, k) == [ i \in 1..Len(a) |-> a[i][k] ]

\* col.reshape((p, p)) of a column of p*p values: C order, row r is p consecutive values
reshape(col, p) == [ r \in 1..p |-> [ c \in 1..p |-> col[(r - 1) * p + c] ] ]

\* m.T of a square matrix
Transpose(m) == [ r \in 1..Len(m) |-> [ c \in 1..Len(m) |-> m[c][r] ] ]

\* a drawing surface: what each plotting call has put on it
NoAx == [ limits |-> << >>, Lambda |-> << >>, quiver |-> << >>,
          scatter |-> << >>, stream |-> << >>, markers |-> << >> ]

\* plot_action_field: one arrow (x, y, a_x, a_y) per sample.  The sample of an
\* empty list of states is a 1-D array, which np.split(.., axis=1) rejects.
plot_action_field(a, st, act) ==
    IF Len(st) = 0 THEN [ raised |-> "IndexError", ax |-> a ]
    ELSE LET x   == Column(st, 1)
             y   == Column(st, 2)
             a_x == Column(act, 1)
             a_y == Column(act, 2)
         IN  [ raised |-> "none",
               ax |-> [ a EXCEPT !.quiver =
                          [ i \in 1..Len(st) |-> << x[i], y[i], a_x[i], a_y[i] >> ] ] ]

\* plot_states: one point per sample
plot_states(a, st) ==
    LET x == Column(st, 1)
        y == Column(st, 2)
    IN  [ a EXCEPT !.scatter = [ i \in 1..Len(st) |-> << x[i], y[i] >> ] ]

\* a stream plot that transposes the states and leaves the actions as reshaped
plot_action_stream_actions_untransposed(a, st, act) ==
    LET points == ISqrt(Len(st))
    IN  IF Len(st) = 0 \/ points * points # Len(st)
        THEN [ raised |-> "ValueError", ax |-> a ]
        ELSE [ raised |-> "none",
               ax |-> [ a EXCEPT !.stream =
                          << Transpose(reshape(Column(st, 1), points)),
                             Transpose(reshape(Column(st, 2), points)),
                             reshape(Column(act, 1), points),
                             reshape(Column(act, 2), points) >> ] ]

\* a stream plot that cuts the sample to points * points values instead of raising
plot_action_stream_truncating(a, st, act) ==
    LET points == ISqrt(Len(st))
    IN  [ raised |-> "none",
          ax |-> [ a EXCEPT !.stream =
                     << Transpose(reshape(Column(st, 1), points)),
                        Transpose(reshape(Column(st, 2), points)),
                        Transpose(reshape(Column(act, 1), points)),
                        Transpose(reshape(Column(act, 2), points)) >> ] ]

\* plot_action_stream: the four columns reshaped to (points, points) and
\* transposed; reshape raises when points * points is not the sample count.
plot_action_stream(a, st, act) ==
    IF Len(st) = 0 THEN [ raised |-> "IndexError", ax |-> a ]
    ELSE LET x      == Column(st, 1)
             y      == Column(st, 2)
             a_x    == Column(act, 1)
             a_y    == Column(act, 2)
             points == ISqrt(Len(st))
         IN  IF points * points # Len(st)
             THEN [ raised |-> "ValueError", ax |-> a ]
             ELSE [ raised |-> "none",
                    ax |-> [ a EXCEPT !.stream =
                               << Transpose(reshape(x, points)),
                                  Transpose(reshape(y, points)),
                                  Transpose(reshape(a_x, points)),
                                  Transpose(reshape(a_y, points)) >> ] ]

plot_deceleration_zones(a, sz, zones, m) ==
    [ a EXCEPT !.Lambda = LambdaField(sz, zones, m) ]

plot_start_and_end_positions(a, start, end) ==
    [ a EXCEPT !.markers = << start, end >> ]

plot_policy_field(a, g, st, act) ==
    LET a1 == [ a EXCEPT !.limits = plot_grid(g["size"]) ]
        a2 == plot_deceleration_zones(a1, g["size"], g["zones"], MeshPoints)
        r3 == plot_action_field(a2, st, act)
    IN  IF r3.raised # "none" THEN r3
        ELSE [ raised |-> "none",
               ax |-> plot_start_and_end_positions(plot_states(r3.ax, st),
                                                   g["start"], g["end"]) ]

plot_policy_stream(a, g, st, act) ==
    LET a1 == [ a EXCEPT !.limits = plot_grid(g["size"]) ]
        a2 == plot_deceleration_zones(a1, g["size"], g["zones"], MeshPoints)
        r3 == plot_action_stream(a2, st, act)
    IN  IF r3.raised # "none" THEN r3
        ELSE [ raised |-> "none",
               ax |-> plot_start_and_end_positions(r3.ax, g["start"], g["end"]) ]

\* ----------------------------------------------------------- the script
Init ==
    /\ pc = "main"
    /\ argv \in [ size : Boxes, npoints : NpArgs ]
    /\ size = << >>
    /\ npoints = 0
    /\ fluentsFor = "non_fluents"
    /\ non_fluents = << >>
    /\ initial_state = << >>
    /\ grid = << >>
    /\ policy = "none"
    /\ states = << >>
    /\ actions = << >>
    /\ states_ = << >>
    /\ actions_ = << >>
    /\ sessions = 0
    /\ restored = FALSE
    /\ exc = "none"
    /\ ax = [ k \in 1..2 |-> NoAx ]
    /\ shown = FALSE

\* lines 139-146: the arguments are read, the compiler is made
MainSetup ==
    /\ pc = "main"
    /\ size' = argv.size
    /\ npoints' = argv.npoints
    /\ fluentsFor' = "non_fluents"
    /\ pc' = "fluents_enter"
    /\ UNCHANGED << argv, non_fluents, initial_state, grid, policy,
                    states, actions, states_, actions_, sessions, restored, exc,
                    ax, shown >>

\* get_fluents, line 16: the with statement opens a session
GetFluentsEnter ==
    /\ pc = "fluents_enter"
    /\ sessions' = sessions + 1
    /\ pc' = "fluents_run"
    /\ UNCHANGED << argv, size, npoints, fluentsFor, non_fluents,
                    initial_state, grid, policy, states, actions, states_,
                    actions_, restored, exc, ax, shown >>

\* get_fluents, line 17, called at line 148: the domain's constants
GetNonFluentsRun ==
    /\ pc = "fluents_run"
    /\ fluentsFor = "non_fluents"
    /\ \E centers \in SeqsUpTo(Centers, MaxZones),
          decays \in SeqsUpTo(Decays, MaxZones),
          goal \in Goals :
         non_fluents' = ("GOAL/1" :> goal) @@
                        ("DECELERATION_ZONE_CENTER/2" :> centers) @@
                        ("DECELERATION_ZONE_DECAY/1" :> decays)
    /\ pc' = "fluents_exit"
    /\ UNCHANGED << argv, size, npoints, fluentsFor, initial_state,
                    grid, policy, states, actions, states_, actions_, sessions,
                    restored, exc, ax, shown >>

\* get_fluents, line 17, called at line 149: the initial state
GetInitialStateRun ==
    /\ pc = "fluents_run"
    /\ fluentsFor = "initial_state"
    /\ \E loc \in Locations : initial_state' = ("location/1" :> loc)
    /\ pc' = "fluents_exit"
    /\ UNCHANGED << argv, size, npoints, fluentsFor, non_fluents,
                    grid, policy, states, actions, states_, actions_, sessions,
                    restored, exc, ax, shown >>

\* get_fluents: leaving the with statement closes the session
GetFluentsExit ==
    /\ pc = "fluents_exit"
    /\ sessions' = sessions - 1
    /\ IF fluentsFor = "non_fluents"
       THEN fluentsFor' = "initial_state" /\ pc' = "fluents_enter"
       ELSE fluentsFor' = fluentsFor /\ pc' = "get_grid"
    /\ UNCHANGED << argv, size, npoints, non_fluents, initial_state,
                    grid, policy, states, actions, states_, actions_, restored,
                    exc, ax, shown >>

\* line 151
GetGrid ==
    /\ pc = "get_grid"
    /\ grid' = get_grid(non_fluents, initial_state)
    /\ pc' = "set_size"
    /\ UNCHANGED << argv, size, npoints, fluentsFor, non_fluents,
                    initial_state, policy, states, actions, states_, actions_,
                    sessions, restored, exc, ax, shown >>

\* line 152
SetGridSize ==
    /\ pc = "set_size"
    /\ grid' = grid @@ ("size" :> size)
    /\ pc' = "get_policy"
    /\ UNCHANGED << argv, size, npoints, fluentsFor, non_fluents,
                    initial_state, policy, states, actions, states_, actions_,
                    sessions, restored, exc, ax, shown >>

\* line 154: the policy built from the configuration file
GetPolicy ==
    /\ pc = "get_policy"
    /\ \E p \in Policies : policy' = p
    /\ pc' = "get_states"
    /\ UNCHANGED << argv, size, npoints, fluentsFor, non_fluents,
                    initial_state, grid, states, actions, states_, actions_,
                    sessions, restored, exc, ax, shown >>

\* line 156; whether np.linspace rejects a float num or truncates it is the
\* numpy in use
GetStates ==
    /\ pc = "get_states"
    /\ \E strict \in BOOLEAN :
         LET r == get_states(grid["size"], npoints, strict)
         IN  IF r.raised # "none"
             THEN /\ exc' = r.raised
                  /\ pc' = "aborted"
                  /\ states' = states
             ELSE /\ exc' = exc
                  /\ pc' = "get_actions"
                  /\ states' = r.value
    /\ UNCHANGED << argv, size, npoints, fluentsFor, non_fluents,
                    initial_state, grid, policy, actions, states_, actions_,
                    sessions, restored, ax, shown >>

\* line 157
GetActions ==
    /\ pc = "get_actions"
    /\ actions' = get_actions(policy, states)
    /\ pc' = "eval_enter"
    /\ UNCHANGED << argv, size, npoints, fluentsFor, non_fluents,
                    initial_state, grid, policy, states, states_, actions_,
                    sessions, restored, exc, ax, shown >>

\* line 157: the external policy may reject the 1-D tensor of an empty sample
GetActionsRaise ==
    /\ pc = "get_actions"
    /\ Len(states) = 0
    /\ exc' = "ValueError"
    /\ pc' = "aborted"
    /\ UNCHANGED << argv, size, npoints, fluentsFor, non_fluents,
                    initial_state, grid, policy, states, actions, states_,
                    actions_, sessions, restored, ax, shown >>

\* evaluate, line 59: the with statement opens a session
EvalEnter ==
    /\ pc = "eval_enter"
    /\ sessions' = sessions + 1
    /\ pc' = "eval_restore"
    /\ UNCHANGED << argv, size, npoints, fluentsFor, non_fluents,
                    initial_state, grid, policy, states, actions, states_,
                    actions_, restored, exc, ax, shown >>

\* evaluate, line 60
EvalRestore ==
    /\ pc = "eval_restore"
    /\ restored' = TRUE
    /\ pc' = "eval_run"
    /\ UNCHANGED << argv, size, npoints, fluentsFor, non_fluents,
                    initial_state, grid, policy, states, actions, states_,
                    actions_, sessions, exc, ax, shown >>

\* evaluate, line 60: a missing or mismatching checkpoint
EvalRestoreRaise ==
    /\ pc = "eval_restore"
    /\ exc' = "CheckpointError"
    /\ pc' = "eval_exit"
    /\ UNCHANGED << argv, size, npoints, fluentsFor, non_fluents,
                    initial_state, grid, policy, states, actions, states_,
                    actions_, sessions, restored, ax, shown >>

\* evaluate, line 61: the forward pass
EvalRun ==
    /\ pc = "eval_run"
    /\ states_' = states
    /\ actions_' = actions
    /\ pc' = "eval_exit"
    /\ UNCHANGED << argv, size, npoints, fluentsFor, non_fluents,
                    initial_state, grid, policy, states, actions, sessions,
                    restored, exc, ax, shown >>

\* evaluate, line 61: the forward pass fails
EvalRunRaise ==
    /\ pc = "eval_run"
    /\ exc' = "RunError"
    /\ pc' = "eval_exit"
    /\ UNCHANGED << argv, size, npoints, fluentsFor, non_fluents,
                    initial_state, grid, policy, states, actions, states_,
                    actions_, sessions, restored, ax, shown >>

\* an evaluate that closes its session only when nothing was raised
EvalExitOnSuccessOnly ==
    /\ pc = "eval_exit"
    /\ sessions' = IF exc = "none" THEN sessions - 1 ELSE sessions
    /\ restored' = (exc # "none" /\ restored)
    /\ pc' = IF exc = "none" THEN "plot_field" ELSE "aborted"
    /\ UNCHANGED << argv, size, npoints, fluentsFor, non_fluents,
                    initial_state, grid, policy, states, actions, states_,
                    actions_, exc, ax, shown >>

\* evaluate, line 59: the with statement closes the session on every way out
EvalExit ==
    /\ pc = "eval_exit"
    /\ sessions' = sessions - 1
    /\ restored' = FALSE
    /\ pc' = IF exc = "none" THEN "plot_field" ELSE "aborted"
    /\ UNCHANGED << argv, size, npoints, fluentsFor, non_fluents,
                    initial_state, grid, policy, states, actions, states_,
                    actions_, exc, ax, shown >>

\* a field plot that consumes the zones list of the Grid while drawing it
PlotPolicyFieldConsumingZones ==
    /\ pc = "plot_field"
    /\ LET r == plot_policy_field(ax[1], grid, states_, actions_)
       IN  /\ ax' = [ ax EXCEPT ![1] = r.ax ]
           /\ exc' = r.raised
           /\ pc' = IF r.raised = "none" THEN "plot_stream" ELSE "aborted"
    /\ grid' = [ grid EXCEPT !["zones"] = << >> ]
    /\ UNCHANGED << argv, size, npoints, fluentsFor, non_fluents,
                    initial_state, policy, states, actions, states_,
                    actions_, sessions, restored, shown >>

\* line 162
PlotPolicyField ==
    /\ pc = "plot_field"
    /\ LET r == plot_policy_field(ax[1], grid, states_, actions_)
       IN  /\ ax' = [ ax EXCEPT ![1] = r.ax ]
           /\ exc' = r.raised
           /\ pc' = IF r.raised = "none" THEN "plot_stream" ELSE "aborted"
    /\ UNCHANGED << argv, size, npoints, fluentsFor, non_fluents,
                    initial_state, grid, policy, states, actions, states_,
                    actions_, sessions, restored, shown >>

\* line 163
PlotPolicyStream ==
    /\ pc = "plot_stream"
    /\ LET r == plot_policy_stream(ax[2], grid, states_, actions_)
       IN  /\ ax' = [ ax EXCEPT ![2] = r.ax ]
           /\ exc' = r.raised
           /\ pc' = IF r.raised = "none" THEN "show" ELSE "aborted"
    /\ UNCHANGED << argv, size, npoints, fluentsFor, non_fluents,
                    initial_state, grid, policy, states, actions, states_,
                    actions_, sessions, restored, shown >>

\* line 164
Show ==
    /\ pc = "show"
    /\ shown' = TRUE
    /\ pc' = "done"
    /\ UNCHANGED << argv, size, npoints, fluentsFor, non_fluents,
                    initial_state, grid, policy, states, actions, states_,
                    actions_, sessions, restored, exc, ax >>

Next ==
    \/ MainSetup
    \/ GetFluentsEnter
    \/ GetNonFluentsRun
    \/ GetInitialStateRun
    \/ GetFluentsExit
    \/ GetGrid
    \/ SetGridSize
    \/ GetPolicy
    \/ GetStates
    \/ GetActions
    \/ GetActionsRaise
    \/ EvalEnter
    \/ EvalRestore
    \/ EvalRestoreRaise
    \/ EvalRun
    \/ EvalRunRaise
    \/ EvalExit
    \/ PlotPolicyField
    \/ PlotPolicyStream
    \/ Show

Spec == Init /\ [][Next]_vars

\* ------------------------------------- plot_action_stream on its own
\* plot_action_stream is handed any (N, 2) sample with its aligned actions.
InitStream ==
    /\ pc = "stream_call"
    /\ argv = [ size |-> << >>, npoints |-> 0 ]
    /\ size = << >>
    /\ npoints = 0
    /\ fluentsFor = "non_fluents"
    /\ non_fluents = << >>
    /\ initial_state = << >>
    /\ grid = << >>
    /\ policy \in Policies
    /\ states = << >>
    /\ actions = << >>
    /\ states_ \in SeqsUpTo(Points, MaxSamples) \ { << >> }
    /\ actions_ = get_actions(policy, states_)
    /\ sessions = 0
    /\ restored = FALSE
    /\ exc = "none"
    /\ ax = [ k \in 1..2 |-> NoAx ]
    /\ shown = FALSE

\* line 75: plot_action_stream(ax, states_, actions_)
PlotActionStreamCall ==
    /\ pc = "stream_call"
    /\ LET r == plot_action_stream(ax[2], states_, actions_)
       IN  /\ ax' = [ ax EXCEPT ![2] = r.ax ]
           /\ exc' = r.raised
           /\ pc' = IF r.raised = "none" THEN "done" ELSE "aborted"
    /\ UNCHANGED << argv, size, npoints, fluentsFor, non_fluents,
                    initial_state, grid, policy, states, actions, states_,
                    actions_, sessions, restored, shown >>

NextStream == PlotActionStreamCall

SpecStream == InitStream /\ [][NextStream]_vars

\* ------------------------------------------------------------ properties
AfterGetGrid   == { "set_size", "get_policy", "get_states", "get_actions",
                    "eval_enter", "eval_restore", "eval_run", "eval_exit",
                    "plot_field", "plot_stream", "show", "done" }
AfterSetSize   == AfterGetGrid \ { "set_size" }
AfterGetStates == { "get_actions", "eval_enter", "eval_restore", "eval_run",
                    "eval_exit", "plot_field", "plot_stream", "show", "done" }
Rendering      == { "plot_field", "plot_stream", "show", "done" }

Drawn(k)    == Len(ax[k].limits) > 0
Streamed(k) == Len(ax[k].stream) = 4
IsSquare(n) == \E k \in 0..n : k * k = n
AllZero(m)  == \A i \in 1..Len(m) : \A j \in 1..Len(m[i]) : m[i][j] = 0
Without(s, k) == [ i \in 1..(Len(s) - 1) |-> IF i < k THEN s[i] ELSE s[i + 1] ]

\* C1: once get_states has returned, with n = int(npoints), the sample holds
\* exactly n*n pairs and the pair at flat index i*n+j (0 <= i, j < n) is
\* (xs[i], ys[j]), xs and ys being the n evenly spaced values over [xmin,xmax]
\* and [ymin,ymax]: x varies slower, y faster.
C1_SampleIsRowMajorProduct ==
    pc \in AfterGetStates =>
        LET n     == Trunc(npoints)
            xs(i) == size[1] * Den(n) + i * (size[2] - size[1])
            ys(j) == size[3] * Den(n) + j * (size[4] - size[3])
        IN  /\ n >= 0
            /\ Len(states) = n * n
            /\ \A i \in 0..(n - 1) : \A j \in 0..(n - 1) :
                   states[i * n + j + 1] = << xs(i), ys(j) >>
            /\ n > 1 => /\ states[1] = << size[1] * Den(n), size[3] * Den(n) >>
                        /\ states[n * n] = << size[2] * Den(n), size[4] * Den(n) >>

C1_Witness ==
    /\ pc = "done"
    /\ Trunc(npoints) = 3
    /\ Len(states) = 9
    /\ states[2] # states[4]

\* C2: get_grid returns no Grid when the zone-center collection and the decay
\* collection differ in length, and never a Grid whose zones list is shorter
\* than either collection.
C2_GetGridFailsOnLengthMismatch ==
    pc \in AfterGetGrid =>
        LET centers == non_fluents["DECELERATION_ZONE_CENTER/2"]
            decays  == non_fluents["DECELERATION_ZONE_DECAY/1"]
        IN  /\ Len(centers) = Len(decays)
            /\ Len(grid["zones"]) >= Len(centers)
            /\ Len(grid["zones"]) >= Len(decays)

\* C3: the npoints that reaches get_states is a positive integer.
C3_NpointsIsPositiveInteger ==
    pc = "get_states" => (npoints > 0 /\ npoints % 2 = 0)

\* C4: in plot_action_stream, for N = k*k samples, the (k,k) grids hold the
\* same multiset of (x,y) pairs as the flat sample, and the action of every
\* cell is the action aligned in the flat sample with the state of that cell.
C4_ReshapeKeepsPairsAligned ==
    Streamed(2) =>
        LET N     == Len(states_)
            k     == ISqrt(N)
            X     == ax[2].stream[1]
            Y     == ax[2].stream[2]
            A_x   == ax[2].stream[3]
            A_y   == ax[2].stream[4]
            cells == (1..k) \X (1..k)
        IN  /\ k * k = N
            /\ \A rc \in cells : \E i \in 1..N :
                   /\ states_[i]  = << X[rc[1]][rc[2]], Y[rc[1]][rc[2]] >>
                   /\ actions_[i] = << A_x[rc[1]][rc[2]], A_y[rc[1]][rc[2]] >>
            /\ \A i \in 1..N :
                   Cardinality({ rc \in cells :
                       << X[rc[1]][rc[2]], Y[rc[1]][rc[2]] >> = states_[i] })
                   = Cardinality({ j \in 1..N : states_[j] = states_[i] })

C4_Witness ==
    /\ pc = "done"
    /\ Streamed(2)
    /\ Len(states_) = 9
    /\ ax[2].stream[1][1][2] # ax[2].stream[1][2][1]

\* C5: for collections of equal length m, the Grid has start = the initial
\* location, end = the goal and m zones, the i-th being the i-th center with
\* the i-th decay.
C5_GridPairsCentersWithDecays ==
    pc \in AfterGetGrid =>
        LET centers == non_fluents["DECELERATION_ZONE_CENTER/2"]
            decays  == non_fluents["DECELERATION_ZONE_DECAY/1"]
        IN  Len(centers) = Len(decays) =>
                /\ grid["start"] = initial_state["location/1"]
                /\ grid["end"] = non_fluents["GOAL/1"]
                /\ Len(grid["zones"]) = Len(centers)
                /\ \A i \in 1..Len(centers) :
                       grid["zones"][i] = << centers[i][1], centers[i][2], decays[i] >>

C5_Witness ==
    /\ pc \in AfterGetGrid
    /\ Len(grid["zones"]) = 2
    /\ Len(non_fluents["DECELERATION_ZONE_DECAY/1"]) = 2
    /\ grid["zones"][1][3] # grid["zones"][2][3]
    /\ grid["zones"][1][1] # grid["zones"][2][1]

\* C6: plot_grid pads each axis by 10% of that axis's own span (limits in
\* tenths: the lower bound less a tenth of the span, the upper bound plus it).
C6_AxisPaddedByOwnSpan ==
    \A k \in 1..2 : Drawn(k) =>
        ax[k].limits = << 10 * size[1] - (size[2] - size[1]),
                          10 * size[2] + (size[2] - size[1]),
                          10 * size[3] - (size[4] - size[3]),
                          10 * size[4] + (size[4] - size[3]) >>

\* C7 as stated: a zone with decay 0 leaves the field unchanged: Lambda is the
\* field computed without that zone.
C7_ZeroDecayLeavesFieldUnchanged ==
    \A k \in 1..2 : Drawn(k) =>
        \A z \in 1..Len(grid["zones"]) :
            grid["zones"][z][3] = 0 =>
                ax[k].Lambda = LambdaField(grid["size"], Without(grid["zones"], z),
                                           MeshPoints)

\* C7 amended: a zone with decay 0 contributes the factor 0 at every mesh
\* point, so Lambda is 0 over the whole mesh as soon as one zone has decay 0.
C7_ZeroDecayZeroesField ==
    \A k \in 1..2 : Drawn(k) =>
        ( (\E z \in 1..Len(grid["zones"]) : grid["zones"][z][3] = 0)
            => ( Len(ax[k].Lambda) = MeshPoints /\ AllZero(ax[k].Lambda) ) )

C7_Witness ==
    /\ Drawn(2)
    /\ Len(grid["zones"]) = 2
    /\ grid["zones"][1][3] = 0
    /\ grid["zones"][2][3] = 1
    /\ AllZero(ax[2].Lambda)

\* C8 as stated: with a sample count that is not a perfect square, stream mode
\* completes and draws its streamlines.
C8_NonSquareStreamCompletes ==
    (pc # "stream_call" /\ ~IsSquare(Len(states_))) =>
        (pc = "done" /\ Streamed(2))

\* C8 amended: with a sample count that is not a perfect square, the first
\* reshape raises ValueError: the call ends in that error and draws nothing.
C8_NonSquareStreamRaises ==
    (pc # "stream_call" /\ ~IsSquare(Len(states_))) =>
        (pc = "aborted" /\ exc = "ValueError" /\ ax[2] = NoAx)

C8_Witness ==
    /\ pc = "aborted"
    /\ Len(states_) = 5
    /\ exc = "ValueError"

\* C9: the steps run in the order load domain, load policy, sample, evaluate,
\* render, display; a session is open whenever it is used, the checkpoint is
\* restored before the forward pass, at most one session is open at any time,
\* and none is open once rendering starts or the run has ended, whether it
\* ended normally or in an error.
C9_SessionScopedToEvaluation ==
    /\ sessions \in 0..1
    /\ pc \in { "fluents_run", "fluents_exit",
                "eval_restore", "eval_run", "eval_exit" } <=> sessions = 1
    /\ pc = "eval_run" => restored
    /\ restored => sessions = 1
    /\ Len(states_) > 0 => (pc = "eval_exit" => restored)
    /\ pc \in Rendering \cup { "aborted" } => sessions = 0
    /\ policy # "none" => pc \in AfterSetSize \cup { "aborted" }
    /\ Len(states) > 0 => policy # "none"
    /\ Len(actions) > 0 => Len(states) = Len(actions)
    /\ Len(states_) > 0 => (states_ = states /\ actions_ = actions)
    /\ Drawn(1) => (Len(states_) = Len(states) /\ pc \in Rendering \cup { "aborted" })
    /\ Drawn(2) => Drawn(1)
    /\ shown => (Streamed(2) /\ pc = "done")

C9_Witness ==
    /\ pc = "aborted"
    /\ exc = "RunError"
    /\ sessions = 0
    /\ Len(states) > 0

\* C10 as stated: once get_grid has returned the Grid, no step changes it.
C10_GridFrozenAfterGetGrid ==
    [][ (pc \in AfterGetGrid) => (grid' = grid) ]_vars

\* C10 amended: once the main script has added the size entry to the Grid, no
\* step changes the Grid; and the evaluated state and action samples are not
\* changed by any rendering step.
C10_GridFrozenAfterSetSize ==
    [][ ( /\ (pc \in AfterSetSize) => (grid' = grid)
          /\ (pc \in Rendering) => (states_' = states_ /\ actions_' = actions_) ) ]_vars

C10_Witness ==
    /\ pc = "done"
    /\ DOMAIN grid = { "start", "end", "zones", "size" }
    /\ Len(grid["zones"]) > 0
    /\ Len(states_) > 0
    /\ Streamed(2)

=============================================================================
